---- MODULE Spec2Model ----
(***************************************************************************)
(* Model of the tournament ingestion pipeline of tenpadel                   *)
(* (src/services/db_import.py): normalisation, validation and the           *)
(* transactional upsert of import_items into the SQLite table tournaments.  *)
(*                                                                          *)
(* A Python str is a sequence of one-character strings, so that strip(),    *)
(* startswith() and the DETAIL_ID regular expression are computed on the    *)
(* characters.  Python's None is the value None below, which is no str.     *)
(***************************************************************************)
EXTENDS Integers, Sequences, FiniteSets, TLC

VARIABLES
    db,       \* the tournaments table: rows in insertion order (id = position)
    pre,      \* the table as it was when the last import_items call started
    batch,    \* the last import_items call's items, as positions in RawRecord
    ret,      \* what the last call gave its caller: an ImportStats or a raise
    loc,      \* the locals inserted/updated/skipped when the last call ended
    again,    \* the last call had the same items as the returned call before it
    prevIns,  \* "inserted" of the call before the last one (-1: none, or raised)
    calls,    \* number of import_items calls so far
    arg,      \* the arguments a function of the pipeline is called with
    result,   \* what that function returned
    fn,       \* the function that was called ("none": not called yet)
    proc      \* the import_items and reader processes that run concurrently

vars == <<db, pre, batch, ret, loc, again, prevIns, calls, arg, result, fn, proc>>

\* the variables of the sequential import_items calls
callvars == <<pre, batch, ret, loc, again, prevIns, calls>>

\* the variables of a single function call
purevars == <<arg, result, fn>>

----------------------------------------------------------------------------
(* Python values *)

None == <<"<None>">>

EmptyStr == <<>>

Whitespace == {" "}

Digits == {"0", "1", "2", "3", "4", "5", "6", "7", "8", "9"}

\* the JSON scalars that are not strings: numbers and booleans (None is null)
Number7 == <<"<number 7>">>
Number0 == <<"<number 0>">>
JsonTrue == <<"<True>">>
JsonFalse == <<"<False>">>

\* isinstance(x, str)
IsStr(x) == x \notin {None, Number7, Number0, JsonTrue, JsonFalse}

\* bool(x) of a scalar
Truthy(x) == x \notin {None, EmptyStr, Number0, JsonFalse}

\* x or y
Or(x, y) == IF Truthy(x) THEN x ELSE y

RECURSIVE lstrip(_)
lstrip(s) == IF s # <<>> /\ Head(s) \in Whitespace THEN lstrip(Tail(s)) ELSE s

RECURSIVE rstrip(_)
rstrip(s) ==
    IF s # <<>> /\ s[Len(s)] \in Whitespace THEN rstrip(SubSeq(s, 1, Len(s) - 1)) ELSE s

\* str.strip()
strip(s) == rstrip(lstrip(s))

\* str.startswith(p)
startswith(s, p) == Len(s) >= Len(p) /\ SubSeq(s, 1, Len(p)) = p

\* Mapping.get(key): None when the key is missing
get(item, key) == IF key \in DOMAIN item THEN item[key] ELSE None

\* dict assignment data[key] = value
put(data, key, value) ==
    [k \in (DOMAIN data) \cup {key} |-> IF k = key THEN value ELSE data[k]]

----------------------------------------------------------------------------
(* The strings the model's raw records are built from *)

UrlA42 == <<"h", "t", "t", "p", ":", "/", "/", "a", "/", "4", "2">>
UrlA42Padded == <<" ">> \o UrlA42 \o <<" ">>
UrlB42 == <<"h", "t", "t", "p", ":", "/", "/", "b", "/", "4", "2">>
UrlAx == <<"h", "t", "t", "p", ":", "/", "/", "a", "/", "x">>
UrlFtp == <<"f", "t", "p", ":", "/", "/", "a">>
UrlHost1x == <<"h", "t", "t", "p", ":", "/", "/", "a", "1", "/", "x">>
UrlDeep == <<"h", "t", "t", "p", ":", "/", "/", "a", "/", "4", "2", "/", "i", "n", "f", "o">>
Blank == <<" ", " ">>
Open == <<"O", "p", "e", "n">>
Cup == <<"C", "u", "p">>
Nice == <<"N", "i", "c", "e">>
Paris == <<"P", "a", "r", "i", "s">>
T7 == <<"T", "7">>
P100 == <<"P", "1", "0", "0">>

----------------------------------------------------------------------------
(* Identity resolver *)

\* sha1(detail_url.encode("utf-8")).hexdigest()[:12], tabulated for the
\* digit-free urls of the model
Sha1Hex12(s) ==
    CASE s = UrlAx -> <<"5", "3", "8", "0", "c", "9", "9", "9", "6", "6", "f", "f">>
      [] s = UrlFtp -> <<"1", "7", "c", "6", "5", "5", "5", "d", "1", "f", "a", "c">>
      [] s = UrlA42 -> <<"b", "a", "d", "b", "c", "5", "3", "7", "a", "4", "c", "1">>
      [] s = UrlB42 -> <<"b", "e", "1", "7", "4", "c", "f", "2", "4", "b", "6", "a">>
      [] s = UrlHost1x -> <<"b", "2", "9", "3", "0", "2", "2", "6", "f", "a", "7", "8">>
      [] s = UrlDeep -> <<"1", "c", "c", "b", "f", "8", "a", "2", "4", "6", "e", "c">>
      [] s = EmptyStr -> <<"d", "a", "3", "9", "a", "3", "e", "e", "5", "e", "6", "b">>
      [] s = <<"/", "/">> -> <<"e", "b", "b", "f", "f", "b", "7", "d", "7", "e", "a", "5">>
      [] s = <<"h", "t", "t", "p", ":", "/", "/", "a", "/", "1", "2", "3">> ->
            <<"6", "9", "c", "b", "0", "7", "4", "0", "9", "2", "2", "f">>

\* index of the last digit of s, 0 when s has none
LastDigit(s) ==
    LET idx == {i \in 1..Len(s) : s[i] \in Digits}
    IN IF idx = {} THEN 0 ELSE CHOOSE i \in idx : \A j \in idx : j <= i

\* DETAIL_ID = (\d+)(?:[^0-9]*$): group(1) of the leftmost match is the last
\* maximal run of digits; None when the string has no digit
DETAIL_ID(s) ==
    LET j == LastDigit(s)
        i == IF j = 0 THEN 0
             ELSE CHOOSE a \in 1..j :
                    /\ \A k \in a..j : s[k] \in Digits
                    /\ (a = 1 \/ s[a - 1] \notin Digits)
    IN IF j = 0 THEN None ELSE SubSeq(s, i, j)

_compute_tournament_id(detail_url, explicit) ==
    LET e == strip(Or(explicit, EmptyStr))
        u == strip(Or(detail_url, EmptyStr))
    IN IF e # EmptyStr THEN e
       ELSE IF u = EmptyStr THEN None
       ELSE IF DETAIL_ID(u) # None THEN DETAIL_ID(u)
       ELSE <<"h">> \o Sha1Hex12(u)

----------------------------------------------------------------------------
(* Record normaliser and validator *)

DB_COLUMNS ==
    <<"tournament_id", "name", "level", "category", "club_name", "city",
      "start_date", "end_date", "detail_url", "registration_url">>

Columns == {DB_COLUMNS[i] : i \in 1..Len(DB_COLUMNS)}

StrippedKeys ==
    {"level", "category", "club_name", "city", "start_date", "end_date",
     "registration_url"}

Tournoi == <<"T", "o", "u", "r", "n", "o", "i">>

\* data["detail_url"] = (data.get("detail_url") or data.get("url") or "").strip()
NormDetailUrl(item) ==
    strip(Or(Or(get(item, "detail_url"), get(item, "url")), EmptyStr))

\* data["name"] = (data.get("name") or data.get("title") or "Tournoi").strip()
NormName(item) ==
    strip(Or(Or(get(item, "name"), get(item, "title")), Tournoi))

\* the loop over the optional keys: a str value is stripped, any other value
\* is kept and a missing key stays missing
NormOptional(data) ==
    [k \in DOMAIN data |->
        IF k \in StrippedKeys /\ IsStr(data[k]) THEN strip(data[k]) ELSE data[k]]

_normalize(item) ==
    LET d1 == put(item, "detail_url", NormDetailUrl(item))
        d2 == put(d1, "name", NormName(item))
        d3 == NormOptional(d2)
        detail_url == Or(get(d3, "detail_url"), EmptyStr)
    IN put(d3, "tournament_id",
           _compute_tournament_id(detail_url, get(d3, "tournament_id")))

Http == <<"h", "t", "t", "p">>

\* mutant: the scheme is tested before the emptiness
_validate_SchemeFirst(item) ==
    LET detail_url == strip(Or(get(item, "detail_url"), EmptyStr))
    IN IF ~startswith(detail_url, Http) THEN "bad_detail_url"
       ELSE IF detail_url = EmptyStr THEN "missing_detail_url"
       ELSE "ok"

\* the reason of the rejection, "ok" (Python: None) when the item is accepted
_validate(item) ==
    LET detail_url == strip(Or(get(item, "detail_url"), EmptyStr))
    IN IF detail_url = EmptyStr THEN "missing_detail_url"
       ELSE IF ~startswith(detail_url, Http) THEN "bad_detail_url"
       ELSE "ok"

----------------------------------------------------------------------------
(* Upsert engine *)

\* values = tuple(item.get(col) for col in DB_COLUMNS).  Every column has
\* TEXT affinity, which stores a str as it is and None as NULL.
Values(item) == [c \in Columns |-> get(item, c)]

\* SELECT * FROM tournaments WHERE detail_url = ?  (fetchone): the position
\* of the row, 0 when there is none
Existing(rows, detail_url) ==
    LET hits == {i \in 1..Len(rows) : rows[i].detail_url = detail_url}
    IN IF hits = {} THEN 0 ELSE CHOOSE i \in hits : \A j \in hits : i <= j

\* INSERT INTO tournaments(...) VALUES (...): id is AUTOINCREMENT
InsertRow(rows, values) ==
    Append(rows, [c \in Columns \cup {"id"} |->
                    IF c = "id" THEN Len(rows) + 1 ELSE values[c]])

\* mutant: every non-empty value is written, equal to the stored one or not
Updates_NoCompare(existing, values) ==
    {c \in Columns \ {"detail_url"} : values[c] \notin {None, EmptyStr}}

\* the columns of the updates dict
Updates(existing, values) ==
    {c \in Columns \ {"detail_url"} :
        /\ values[c] \notin {None, EmptyStr}
        /\ existing[c] # values[c]}

\* mutant: the UPDATE has no WHERE clause
UpdateRows_NoWhere(rows, detail_url, values, updates) ==
    [i \in 1..Len(rows) |->
        [c \in DOMAIN rows[i] |->
            IF c \in updates THEN values[c] ELSE rows[i][c]]]

\* mutant: the UPDATE sets every column to the candidate's value
UpdateRows_AllColumns(rows, detail_url, values, updates) ==
    [i \in 1..Len(rows) |->
        IF rows[i].detail_url = detail_url
        THEN [c \in DOMAIN rows[i] |->
                IF c \in Columns THEN values[c] ELSE rows[i][c]]
        ELSE rows[i]]

\* UPDATE tournaments SET col = ?, ... WHERE detail_url = ?
UpdateRows(rows, detail_url, values, updates) ==
    [i \in 1..Len(rows) |->
        IF rows[i].detail_url = detail_url
        THEN [c \in DOMAIN rows[i] |->
                IF c \in updates THEN values[c] ELSE rows[i][c]]
        ELSE rows[i]]

\* mutant: the else branch that counts an unchanged item is missing
UpsertItem_NoSkipCount(st, item, fails) ==
    LET values == Values(item)
        e == Existing(st.rows, item.detail_url)
        updates == IF e = 0 THEN {} ELSE Updates(st.rows[e], values)
    IN IF e = 0
       THEN IF fails THEN [st EXCEPT !.raised = TRUE]
            ELSE [st EXCEPT !.rows = InsertRow(st.rows, values),
                            !.inserted = @ + 1]
       ELSE IF updates # {}
       THEN IF fails THEN [st EXCEPT !.raised = TRUE]
            ELSE [st EXCEPT !.rows = UpdateRows(st.rows, item.detail_url, values, updates),
                            !.updated = @ + 1]
       ELSE st

\* one iteration of "for item in valid"; fails: the write statement of this
\* iteration raises (sqlite3.Error)
UpsertItem(st, item, fails) ==
    LET values == Values(item)
        e == Existing(st.rows, item.detail_url)
        updates == IF e = 0 THEN {} ELSE Updates(st.rows[e], values)
    IN IF e = 0
       THEN IF fails THEN [st EXCEPT !.raised = TRUE]
            ELSE [st EXCEPT !.rows = InsertRow(st.rows, values),
                            !.inserted = @ + 1]
       ELSE IF updates # {}
       THEN IF fails THEN [st EXCEPT !.raised = TRUE]
            ELSE [st EXCEPT !.rows = UpdateRows(st.rows, item.detail_url, values, updates),
                            !.updated = @ + 1]
       ELSE [st EXCEPT !.skipped = @ + 1]

\* the loop over valid[k..], left at the first exception
RECURSIVE UpsertLoop(_, _, _, _)
UpsertLoop(st, valid, k, failAt) ==
    IF k > Len(valid) \/ st.raised THEN st
    ELSE UpsertLoop(UpsertItem(st, valid[k], k = failAt), valid, k + 1, failAt)

\* SELECT COUNT(*) FROM tournaments
_count_rows(rows) == Len(rows)

Reasons == {"missing_detail_url", "bad_detail_url"}

ImportStats(total, valid, inserted, updated, skipped, rows_after, reasons) ==
    [kind |-> "ImportStats", total |-> total, valid |-> valid,
     inserted |-> inserted, updated |-> updated, skipped |-> skipped,
     rows_after |-> rows_after, reasons |-> reasons]

Raised == [kind |-> "raise"]

\* the raw records the model feeds to import_items
RawRecord ==
    << [url |-> UrlA42, name |-> Open, city |-> Nice],
       [url |-> UrlA42, city |-> None],
       [detail_url |-> UrlA42Padded, title |-> Cup, city |-> Blank,
        tournament_id |-> T7, level |-> P100],
       [url |-> UrlB42, name |-> Blank, city |-> Paris, category |-> <<"H">>,
        club_name |-> <<"T", "C">>, start_date |-> <<"1", "2", " ", "n", "o", "v">>,
        end_date |-> EmptyStr, registration_url |-> UrlFtp],
       [name |-> Open, city |-> Nice],
       [url |-> UrlFtp] >>

\* items of a call, given the positions of its records in RawRecord
Items(ix) == [i \in 1..Len(ix) |-> RawRecord[ix[i]]]

\* _normalize and _validate of every raw record (they read no state)
NormalisedRecord == [n \in 1..Len(RawRecord) |-> _normalize(RawRecord[n])]

FailureOfRecord == [n \in 1..Len(RawRecord) |-> _validate(NormalisedRecord[n])]

\* the first loop of import_items: normalise, validate, count
Normalised(ix) == [i \in 1..Len(ix) |-> NormalisedRecord[ix[i]]]

Failure(ix) == [i \in 1..Len(ix) |-> FailureOfRecord[ix[i]]]

\* mutant: a record rejected for its scheme stays in the batch
ValidIx_KeepsBadUrl(ix) == SelectSeq(ix, LAMBDA n : FailureOfRecord[n] # "missing_detail_url")

\* valid.append(normalised) for the records that pass, "continue" for the rest
ValidIx(ix) == SelectSeq(ix, LAMBDA n : FailureOfRecord[n] = "ok")

Valid(ix) == Normalised(ValidIx(ix))

ReasonCounts(ix) ==
    [r \in Reasons |-> Cardinality({i \in 1..Len(ix) : FailureOfRecord[ix[i]] = r})]

\* the transaction of import_items run on the table rows
Transaction(rows, ix, failAt) ==
    UpsertLoop([rows |-> rows, inserted |-> 0, updated |-> 0, skipped |-> 0,
                raised |-> FALSE],
               Valid(ix), 1, failAt)

\* mutant: the except clause does not roll back
AfterTransaction_NoRollback(before, st) == st.rows

\* the table once the try block is left: con.commit(), or con.rollback() in
\* the except clause
AfterTransaction(before, st) == IF st.raised THEN before ELSE st.rows

MaxBatch == 2

MaxCalls == 2

\* import_items(Items(ix)); failAt = k > 0: the storage raises on the write
\* of the k-th valid item, should that item issue one
import_items(ix, failAt) ==
    LET total == Len(ix)
        valid == Valid(ix)
        reasons == ReasonCounts(ix)
        st == Transaction(db, ix, failAt)
    IN /\ calls < MaxCalls
       /\ calls' = calls + 1
       /\ pre' = db
       /\ batch' = ix
       /\ again' = (ret.kind = "ImportStats" /\ batch = ix)
       /\ prevIns' = IF ret.kind = "ImportStats" THEN ret.inserted ELSE -1
       /\ UNCHANGED <<purevars, proc>>
       /\ IF valid = <<>>
          THEN /\ db' = db
               /\ loc' = [inserted |-> 0, updated |-> 0, skipped |-> 0]
               /\ ret' = ImportStats(total, 0, 0, 0, 0, _count_rows(db), reasons)
          ELSE /\ loc' = [inserted |-> st.inserted, updated |-> st.updated,
                          skipped |-> st.skipped]
               /\ db' = AfterTransaction(db, st)
               /\ ret' = IF st.raised
                         THEN Raised         \* the except clause re-raises
                         ELSE ImportStats(total, Len(valid), st.inserted,
                                          st.updated, st.skipped,
                                          _count_rows(AfterTransaction(db, st)),
                                          reasons)

----------------------------------------------------------------------------
(* The specification *)

RECURSIVE SeqsUpTo(_, _)
SeqsUpTo(S, n) ==
    IF n = 0 THEN {<<>>}
    ELSE LET shorter == SeqsUpTo(S, n - 1)
         IN shorter \cup {Append(s, x) : s \in shorter, x \in S}

Batches == SeqsUpTo(1..Len(RawRecord), MaxBatch)

\* no function call is being looked at
PureIdle == arg = <<>> /\ result = <<>> /\ fn = "none"

\* no concurrent process exists
ProcIdle == proc = <<>>

\* the table right after ensure_schema() created it
Init ==
    /\ PureIdle
    /\ ProcIdle
    /\ db = <<>>
    /\ pre = <<>>
    /\ batch = <<>>
    /\ ret = [kind |-> "none"]
    /\ loc = [inserted |-> 0, updated |-> 0, skipped |-> 0]
    /\ again = FALSE
    /\ prevIns = -1
    /\ calls = 0

Next == \E ix \in Batches : \E failAt \in 0..Len(ix) : import_items(ix, failAt)

Spec == Init /\ [][Next]_vars

----------------------------------------------------------------------------
(* Vocabulary of the properties *)

\* the last call returned an ImportStats
Returned == ret.kind = "ImportStats"

\* a value that holds no text: None, "" or whitespace only
IsBlank(v) == v = None \/ strip(v) = EmptyStr

\* the detail reference a raw record resolves to (alias detail_url, then url)
ResolvedUrl(n) == NormDetailUrl(RawRecord[n])

\* the raw record passes validation, stated on its resolved detail reference
Accepted(n) == ResolvedUrl(n) # EmptyStr /\ startswith(ResolvedUrl(n), Http)

\* positions in the last batch of the accepted records
AcceptedAt == {i \in 1..Len(batch) : Accepted(batch[i])}

\* the stored rows with a given detail_url
RowsOf(rows, u) == {i \in 1..Len(rows) : rows[i].detail_url = u}

\* every record of the last batch is accepted and no two resolve to the same url
DistinctValidBatch ==
    /\ AcceptedAt = 1..Len(batch)
    /\ \A i, j \in 1..Len(batch) :
          i # j => ResolvedUrl(batch[i]) # ResolvedUrl(batch[j])

----------------------------------------------------------------------------
(* C8: in every report, received is the number of raw records, valid the
   number of records whose resolved detail url is non-empty and starts with
   "http", a record with an empty resolved url is counted under
   missing_detail_url only, one with a non-empty url of another scheme under
   bad_detail_url only, and the reason counts sum to received - valid. *)
C8_ValidationCounting ==
    Returned =>
        /\ ret.total = Len(batch)
        /\ ret.valid = Cardinality(AcceptedAt)
        /\ ret.reasons["missing_detail_url"] =
              Cardinality({i \in 1..Len(batch) : ResolvedUrl(batch[i]) = EmptyStr})
        /\ ret.reasons["bad_detail_url"] =
              Cardinality({i \in 1..Len(batch) :
                              /\ ResolvedUrl(batch[i]) # EmptyStr
                              /\ ~startswith(ResolvedUrl(batch[i]), Http)})
        /\ ret.reasons["missing_detail_url"] + ret.reasons["bad_detail_url"]
              = ret.total - ret.valid

\* a returned report of a batch with one record of each rejection reason
C8_Witness ==
    /\ Returned
    /\ ret.reasons["missing_detail_url"] = 1
    /\ ret.reasons["bad_detail_url"] = 1

(* C9: in every report valid = inserted + updated + skipped and rows_after is
   the row count before the call plus inserted; with no valid record the
   table is untouched and the three counters are 0. *)
C9_ReportAccounting ==
    Returned =>
        /\ ret.valid = ret.inserted + ret.updated + ret.skipped
        /\ ret.rows_after = Len(pre) + ret.inserted
        /\ ret.rows_after = Len(db)
        /\ (ret.valid = 0 =>
               /\ db = pre
               /\ ret.inserted = 0 /\ ret.updated = 0 /\ ret.skipped = 0)

\* a report of a call that found rows, inserted one and updated or skipped one
C9_Witness ==
    /\ Returned
    /\ Len(pre) >= 1
    /\ ret.inserted >= 1
    /\ ret.updated + ret.skipped >= 1

\* no record of the last batch had a row when the call started
FreshBatch ==
    \A i \in 1..Len(batch) : RowsOf(pre, ResolvedUrl(batch[i])) = {}

(* C2: a batch of N valid records with pairwise distinct detail urls, none of
   them stored yet, is reported inserted=N, updated=0, skipped=0; the call
   that follows at once with the same batch is reported inserted=0,
   updated=0, skipped=N. *)
C2_InsertThenUnchanged ==
    (Returned /\ DistinctValidBatch) =>
        /\ FreshBatch =>
              /\ ret.inserted = Len(batch)
              /\ ret.updated = 0
              /\ ret.skipped = 0
        /\ (again /\ prevIns = Len(batch)) =>
              /\ ret.inserted = 0
              /\ ret.updated = 0
              /\ ret.skipped = Len(batch)

\* the second of two calls with the same two distinct records, the first of
\* which inserted both
C2_Witness ==
    /\ Returned
    /\ DistinctValidBatch
    /\ Len(batch) = 2
    /\ again
    /\ prevIns = 2
    /\ ret.skipped = 2

\* the rows of db that carry what the valid candidates of the last batch hold:
\* for the last candidate of each url, every non-empty value is in its row
CandidatesApplied ==
    \A i \in AcceptedAt :
        LET u == ResolvedUrl(batch[i])
            item == NormalisedRecord[batch[i]]
            isLast == \A j \in AcceptedAt : ResolvedUrl(batch[j]) = u => j <= i
        IN /\ Cardinality(RowsOf(db, u)) = 1
           /\ isLast =>
                 \A r \in RowsOf(db, u) : \A c \in Columns :
                     get(item, c) \notin {None, EmptyStr} => db[r][c] = get(item, c)

(* C7: a call in which a write fails, after any number of earlier writes of
   the same batch, raises and leaves the table as it was before the call;
   a call that returns has applied every valid candidate. *)
C7_Atomicity ==
    /\ ret.kind = "raise" => db = pre
    /\ Returned => CandidatesApplied

\* a call that raised after one candidate of its batch had been written
C7_Witness ==
    /\ ret.kind = "raise"
    /\ loc.inserted + loc.updated >= 1
    /\ db = pre

(* C1: when a batch is imported twice in a row, the second call finds nothing
   to write: it inserts nothing, updates nothing (updated = 0) and leaves the
   table as the first call left it, also when records of the batch share a
   detail_url. *)
C1_Idempotence ==
    (again /\ Returned) =>
        /\ ret.inserted = 0
        /\ ret.updated = 0
        /\ db = pre

\* the columns the merge may write
MergedColumns == Columns \ {"detail_url"}

\* the raw record carries nothing for a column (for name: under neither alias)
RawBlank(n, c) ==
    IF c = "name"
    THEN IsBlank(get(RawRecord[n], "name")) /\ IsBlank(get(RawRecord[n], "title"))
    ELSE IsBlank(get(RawRecord[n], c))

(* C3: a stored non-empty value of a column (tournament_id, name, level,
   category, club_name, city, start_date, end_date, registration_url) is
   unchanged after an import in which every record for the row's detail_url
   has that field absent, None, empty or whitespace-only. *)
C3_NonRegression ==
    Returned =>
        \A r \in 1..Len(pre) : \A c \in MergedColumns :
            ( /\ pre[r][c] \notin {None, EmptyStr}
              /\ \A i \in AcceptedAt :
                    ResolvedUrl(batch[i]) = pre[r].detail_url => RawBlank(batch[i], c) )
            => db[r][c] = pre[r][c]

(* C4: the tournament_id stored for a detail_url never changes in a later
   import_items call, whatever the later records carry. *)
C4_IdentityStable ==
    \A r \in 1..Len(pre) : \A q \in 1..Len(db) :
        db[q].detail_url = pre[r].detail_url
            => db[q].tournament_id = pre[r].tournament_id

(* C5: tournament_id is a key of the table: every stored row has a non-empty
   tournament_id and no two rows have the same one. *)
C5_TournamentIdIsKey ==
    /\ \A r \in 1..Len(db) : db[r].tournament_id \notin {None, EmptyStr}
    /\ \A r, q \in 1..Len(db) :
          db[r].tournament_id = db[q].tournament_id => r = q

\* a valid candidate of the last batch has the tournament_id of a row that was
\* stored under another detail_url when the call started
Collision ==
    \E i \in AcceptedAt : \E r \in 1..Len(pre) :
        /\ NormalisedRecord[batch[i]].tournament_id = pre[r].tournament_id
        /\ ResolvedUrl(batch[i]) # pre[r].detail_url

(* C6: a call that processes a candidate whose tournament_id is that of a row
   stored under a different detail_url fails: it raises, the batch is rolled
   back, and no second row with that tournament_id is stored. *)
C6_CollisionIsFatal ==
    (calls > 0 /\ Collision) => (ret.kind = "raise" /\ db = pre)

\* the raw record carries a city
HasCity(n) == ~IsBlank(get(RawRecord[n], "city"))

(* C10: a batch of two records that resolve to the same tournament_id, one
   with a city and one without, stores, in either order, exactly one row for
   that identity, and the row holds the fields of the record with the city. *)
C10_DedupPrefersComplete ==
    ( /\ Returned
      /\ pre = <<>>
      /\ Len(batch) = 2
      /\ AcceptedAt = {1, 2}
      /\ NormalisedRecord[batch[1]].tournament_id = NormalisedRecord[batch[2]].tournament_id
      /\ HasCity(batch[1]) # HasCity(batch[2]) )
    => LET k == IF HasCity(batch[1]) THEN 1 ELSE 2
           kept == NormalisedRecord[batch[k]]
       IN /\ Len(db) = 1
          /\ \A c \in Columns : db[1][c] = get(kept, c)

----------------------------------------------------------------------------
(* Single calls of the functions of the pipeline: the arguments are drawn by
   the initial state, one action calls the function *)

\* no import_items call has been made
CallsIdle ==
    /\ pre = <<>>
    /\ batch = <<>>
    /\ ret = [kind |-> "none"]
    /\ loc = [inserted |-> 0, updated |-> 0, skipped |-> 0]
    /\ again = FALSE
    /\ prevIns = -1
    /\ calls = 0

\* a call of f that returns r
Call(f, r) ==
    /\ fn = "none"
    /\ fn' = f
    /\ result' = r
    /\ UNCHANGED <<arg, db, callvars, proc>>

----------------------------------------------------------------------------
(* The identity resolver on its own *)

HashOfAx == <<"h">> \o Sha1Hex12(UrlAx)

IdUrls ==
    {None, EmptyStr, Blank, UrlA42, UrlA42Padded, UrlB42, UrlAx, UrlFtp,
     UrlHost1x, UrlDeep}

IdExplicits ==
    {None, EmptyStr, Blank, T7, <<" ">> \o T7 \o <<" ">>, <<"4", "2">>, HashOfAx}

IdArgs == [detail_url : IdUrls, explicit : IdExplicits]

InitId ==
    /\ arg \in IdArgs
    /\ result = <<>>
    /\ fn = "none"
    /\ db = <<>>
    /\ CallsIdle
    /\ ProcIdle

ResolveId ==
    Call("_compute_tournament_id",
         _compute_tournament_id(arg.detail_url, arg.explicit))

NextId == ResolveId

SpecId == InitId /\ [][NextId]_vars

\* the resolver was called
Resolved == fn = "_compute_tournament_id"

\* the text after the last "/" of a url
TrailingSegment(u) ==
    LET slashes == {i \in 1..Len(u) : u[i] = "/"}
        last == IF slashes = {} THEN 0
                ELSE CHOOSE i \in slashes : \A j \in slashes : j <= i
    IN SubSeq(u, last + 1, Len(u))

\* which of the three cases of the priority order applies to the arguments
IdCase(a) ==
    LET e == strip(Or(a.explicit, EmptyStr))
        u == strip(Or(a.detail_url, EmptyStr))
    IN IF e # EmptyStr THEN "explicit"
       ELSE IF DETAIL_ID(TrailingSegment(u)) # None THEN "embedded"
       ELSE "hash"

\* the id the priority order asks for
IdExpected(a) ==
    LET e == strip(Or(a.explicit, EmptyStr))
        u == strip(Or(a.detail_url, EmptyStr))
    IN CASE IdCase(a) = "explicit" -> e
         [] IdCase(a) = "embedded" -> DETAIL_ID(TrailingSegment(u))
         [] IdCase(a) = "hash" -> <<"h">> \o Sha1Hex12(u)

(* C12: the resolver returns the trimmed explicit id when it is non-empty,
   else the id embedded in the trailing path segment of detail_url when there
   is one, else "h" followed by the fixed-width hash of detail_url; an id of
   the hash case never equals an id the first two cases produce.  (Stated
   for a non-empty detail_url; C13 is about the empty one.) *)
C12_ResolverPriority ==
    (Resolved /\ ~IsBlank(arg.detail_url)) =>
        /\ result = IdExpected(arg)
        /\ IdCase(arg) = "hash" =>
              \A other \in IdArgs :
                  IdCase(other) # "hash" =>
                      _compute_tournament_id(other.detail_url, other.explicit) # result

(* C13: for every pair (detail_url, explicit id), an absent or empty
   detail_url with an absent explicit id included, the resolver returns a
   non-empty string. *)
C13_ResolverTotal ==
    Resolved => result \notin {None, EmptyStr}


(***************************************************************************)
(* Identifier derivations outside db_import: the TenUp scraper and the     *)
(* manual scraper.  The environment of a run is the interpreter's string   *)
(* hash seed (PYTHONHASHSEED, random per process by default) and the wall  *)
(* clock.                                                                  *)
(***************************************************************************)
UrlPad == <<"h", "t", "t", "p", ":", "/", "/", "a", "/", "P", "A", "D", "-", "1", "2", "3">>
Url123 == <<"h", "t", "t", "p", ":", "/", "/", "a", "/", "1", "2", "3">>
Slashes == <<"/", "/">>

\* the two interpreter hash seeds of the runs
Seeds == {1, 2}

\* str(time.time()) at the two runs
Clocks ==
    { <<"1", "7", "3", "0", "8", "1", "2", "3", "4", "5", ".", "2", "5">>,
      <<"1", "7", "3", "0", "8", "1", "2", "3", "4", "6", ".", "5">> }

\* str(abs(hash(url))): CPython's str hash is keyed by the seed (values of
\* CPython 3 for seeds 1 and 2, first six digits; hash("") is 0)
StrAbsHash(url, seed) ==
    CASE url = EmptyStr -> <<"0">>
      [] url = UrlA42 /\ seed = 1 -> <<"6", "3", "5", "7", "9", "4">>
      [] url = UrlA42 /\ seed = 2 -> <<"2", "4", "3", "7", "0", "6">>
      [] url = UrlAx /\ seed = 1 -> <<"9", "1", "1", "3", "3", "7">>
      [] url = UrlAx /\ seed = 2 -> <<"5", "4", "9", "6", "8", "8">>
      [] url = UrlDeep /\ seed = 1 -> <<"5", "3", "6", "8", "3", "5">>
      [] url = UrlDeep /\ seed = 2 -> <<"4", "1", "5", "2", "1", "0">>
      [] OTHER -> IF seed = 1 THEN <<"7">> ELSE <<"8">>

\* end of the run of digits that starts at position i
RECURSIVE DigitRunEnd(_, _)
DigitRunEnd(s, i) ==
    IF i < Len(s) /\ s[i + 1] \in Digits THEN DigitRunEnd(s, i + 1) ELSE i

\* re.search(r"(PAD[-_]\d+)", url).group(1), None without a match
PadMatch(url) ==
    LET starts == {i \in 1..Len(url) :
                      /\ i + 4 <= Len(url)
                      /\ SubSeq(url, i, i + 2) = <<"P", "A", "D">>
                      /\ url[i + 3] \in {"-", "_"}
                      /\ url[i + 4] \in Digits}
    IN  IF starts = {} THEN None
        ELSE LET i == CHOOSE k \in starts : \A j \in starts : k <= j
             IN  SubSeq(url, i, DigitRunEnd(url, i + 4))

\* re.search(r"/(\d{3,})", url).group(1), None without a match
SlashDigitsMatch(url) ==
    LET starts == {i \in 1..Len(url) :
                      /\ i + 3 <= Len(url)
                      /\ url[i] = "/"
                      /\ \A k \in 1..3 : url[i + k] \in Digits}
    IN  IF starts = {} THEN None
        ELSE LET i == CHOOSE k \in starts : \A j \in starts : k <= j
             IN  SubSeq(url, i + 1, DigitRunEnd(url, i + 1))

\* TenUpScraper._extract_tournament_id: pageId is the stripped text of the
\* page's tournament-id element (None when absent or empty)
_extract_tournament_id(pageId, url, seed) ==
    IF Truthy(pageId) THEN pageId
    ELSE IF PadMatch(url) # None THEN PadMatch(url)
    ELSE IF SlashDigitsMatch(url) # None THEN SlashDigitsMatch(url)
    ELSE StrAbsHash(url, seed)

UpperLetters ==
    <<"A", "B", "C", "D", "E", "F", "G", "H", "I", "J", "K", "L", "M",
      "N", "O", "P", "Q", "R", "S", "T", "U", "V", "W", "X", "Y", "Z">>
LowerLetters ==
    <<"a", "b", "c", "d", "e", "f", "g", "h", "i", "j", "k", "l", "m",
      "n", "o", "p", "q", "r", "s", "t", "u", "v", "w", "x", "y", "z">>
Alnum ==
    Digits \cup {UpperLetters[i] : i \in 1..26} \cup {LowerLetters[i] : i \in 1..26}

\* str.lower() of one ASCII character
lower(c) ==
    IF \E i \in 1..26 : UpperLetters[i] = c
    THEN LowerLetters[CHOOSE i \in 1..26 : UpperLetters[i] = c]
    ELSE c

RECURSIVE SkipNonAlnum(_)
SkipNonAlnum(s) ==
    IF s # <<>> /\ Head(s) \notin Alnum THEN SkipNonAlnum(Tail(s)) ELSE s

\* re.sub(r"[^a-zA-Z0-9]+", "-", value)
RECURSIVE DashRuns(_)
DashRuns(s) ==
    IF s = <<>> THEN <<>>
    ELSE IF Head(s) \in Alnum THEN <<Head(s)>> \o DashRuns(Tail(s))
    ELSE <<"-">> \o DashRuns(SkipNonAlnum(s))

RECURSIVE StripDashes(_)
StripDashes(s) ==
    IF s # <<>> /\ Head(s) = "-" THEN StripDashes(Tail(s))
    ELSE IF s # <<>> /\ s[Len(s)] = "-" THEN StripDashes(SubSeq(s, 1, Len(s) - 1))
    ELSE s

\* manual_scrape._slugify on ASCII text (NFKD + ascii-encode leaves ASCII
\* unchanged)
_slugify(value) ==
    IF ~Truthy(value) THEN EmptyStr
    ELSE LET v == StripDashes(DashRuns(value))
         IN  [i \in 1..Len(v) |-> lower(v[i])]

\* f"{title}-{start_date}-{end_date}" with absent dates ('' defaults)
SlugFallback(title) == title \o <<"-", "-">>

\* manual_scrape._upsert_database, lines 271-274: the tournament_id of an item
ManualTournamentId(url, title, clock) ==
    LET slug_source == IF Truthy(url) THEN url ELSE SlugFallback(title)
        first == _slugify(slug_source)
    IN  IF first # EmptyStr THEN first
        ELSE _slugify(SlugFallback(title) \o <<"-">> \o clock)

DetUrls == {EmptyStr, Slashes, UrlA42, UrlAx, UrlDeep, UrlPad, Url123}
DetArgs ==
    [deriv : {"db_import", "tenup", "manual_scrape"},
     detail_url : DetUrls,
     explicit : {None, EmptyStr, T7},
     title : {EmptyStr, Open}]

\* the identifier one run derives for the tournament of arg
Derive(a, seed, clock) ==
    CASE a.deriv = "db_import" -> _compute_tournament_id(a.detail_url, a.explicit)
      [] a.deriv = "tenup" ->
            _extract_tournament_id(IF Truthy(a.explicit) THEN a.explicit ELSE None,
                                   a.detail_url, seed)
      [] a.deriv = "manual_scrape" -> ManualTournamentId(a.detail_url, a.title, clock)

InitDet ==
    /\ arg \in DetArgs
    /\ result = <<>>
    /\ fn = "none"
    /\ db = <<>>
    /\ CallsIdle
    /\ ProcIdle

\* one run (a process with its own hash seed, at its own time) derives the id
Run ==
    /\ Len(result) < 2
    /\ \E seed \in Seeds, clock \in Clocks :
          result' = Append(result, [seed |-> seed, clock |-> clock,
                                    id |-> Derive(arg, seed, clock)])
    /\ fn' = arg.deriv
    /\ UNCHANGED <<arg, db, callvars, proc>>

RunResolver ==
    /\ arg.deriv = "db_import"
    /\ Run

RunTenUp ==
    /\ arg.deriv = "tenup"
    /\ Run

RunManual ==
    /\ arg.deriv = "manual_scrape"
    /\ Run

NextDet == RunResolver \/ RunTenUp \/ RunManual

SpecDet == InitDet /\ [][NextDet]_vars

(* C14: two runs given the same detail url and the same explicit id derive
   the same tournament_id, whatever the process and the time of the run, for
   every identifier derivation of the repository. *)
C14_IdentityDeterminism ==
    (fn \in {"db_import", "tenup", "manual_scrape"} /\ Len(result) = 2) =>
        result[1].id = result[2].id


(***************************************************************************)
(* French date converters.  The input text is "<day> <token> <year>"; the  *)
(* month token is a word with or without a trailing period.                *)
(***************************************************************************)
DigitChar(n) == <<"0", "1", "2", "3", "4", "5", "6", "7", "8", "9">>[n + 1]

\* f"{n:02d}" / "%m", "%d"
Pad2(n) == <<DigitChar((n \div 10) % 10), DigitChar(n % 10)>>

\* f"{n:04d}" / "%Y"
Pad4(n) == Pad2(n \div 100) \o Pad2(n % 100)

\* f"{y:04d}-{mo:02d}-{d:02d}"
IsoFormat(y, mo, d) == Pad4(y) \o <<"-">> \o Pad2(mo) \o <<"-">> \o Pad2(d)

IsLeap(y) == (y % 4 = 0 /\ y % 100 # 0) \/ y % 400 = 0

DaysInMonth(y, mo) ==
    IF mo = 2 THEN (IF IsLeap(y) THEN 29 ELSE 28)
    ELSE IF mo \in {4, 6, 9, 11} THEN 30 ELSE 31

\* datetime(year, month, day) does not raise ValueError
DatetimeOk(y, mo, d) == mo \in 1..12 /\ d >= 1 /\ d <= DaysInMonth(y, mo)

\* fetch_auto.MONTHS_FR
MONTHS_FR ==
    "janv" :> 1 @@ "janvier" :> 1 @@ "févr" :> 2 @@ "fevr" :> 2 @@
    "février" :> 2 @@ "fevrier" :> 2 @@ "mars" :> 3 @@ "avr" :> 4 @@
    "avril" :> 4 @@ "mai" :> 5 @@ "juin" :> 6 @@ "juil" :> 7 @@
    "juillet" :> 7 @@ "août" :> 8 @@ "aout" :> 8 @@ "sept" :> 9 @@
    "septembre" :> 9 @@ "oct" :> 10 @@ "octobre" :> 10 @@ "nov" :> 11 @@
    "novembre" :> 11 @@ "déc" :> 12 @@ "dec" :> 12 @@ "décembre" :> 12 @@
    "decembre" :> 12

\* fetch_auto.parse_date on "<day> <word>[.] <year>": group 2 of the regex is
\* the word with its period, strip(". ") removes the period
parse_date(d, word, dot, y) ==
    LET month_token == word
    IN  IF month_token \notin DOMAIN MONTHS_FR THEN None
        ELSE IF ~DatetimeOk(y, MONTHS_FR[month_token], d) THEN None
        ELSE IsoFormat(y, MONTHS_FR[month_token], d)

\* fetch_paginated.MONTH_MAP
MONTH_MAP ==
    "janvier" :> 1 @@ "janv" :> 1 @@ "février" :> 2 @@ "fevrier" :> 2 @@
    "févr" :> 2 @@ "fevr" :> 2 @@ "mars" :> 3 @@ "avril" :> 4 @@
    "avr" :> 4 @@ "mai" :> 5 @@ "juin" :> 6 @@ "juillet" :> 7 @@
    "juil" :> 7 @@ "août" :> 8 @@ "aout" :> 8 @@ "septembre" :> 9 @@
    "sept" :> 9 @@ "octobre" :> 10 @@ "oct" :> 10 @@ "novembre" :> 11 @@
    "nov" :> 11 @@ "décembre" :> 12 @@ "decembre" :> 12 @@ "déc" :> 12 @@
    "dec" :> 12

\* alternatives of RE_DATE that take an optional period
RE_DATE_Dotted == {"janv", "févr", "fevr", "avr", "juil", "sept", "oct", "nov", "déc", "dec"}

\* alternatives of RE_DATE that must be followed by white space
RE_DATE_Plain ==
    {"janvier", "février", "fevri", "mars", "avril", "mai", "juin", "juillet",
     "août", "aout", "septembre", "octobre", "novembre", "décembre", "decembre"}

\* RE_DATE.search finds "<day> <word>[.] <year>"
RE_DATE(word, dot) == word \in RE_DATE_Dotted \/ (word \in RE_DATE_Plain /\ ~dot)

\* fetch_paginated.fr_to_iso_any, second component of the returned pair
fr_to_iso_any(d, word, dot, y) ==
    IF ~RE_DATE(word, dot) THEN None
    ELSE LET mo_raw == word
         IN  IF mo_raw \notin DOMAIN MONTH_MAP THEN None
             ELSE IsoFormat(y, MONTH_MAP[mo_raw], d)

\* scrape._extract_cards.FR_MONTHS; a key is a word with or without period
FR_MONTHS ==
    [word |-> "janv", dot |-> FALSE] :> 1 @@ [word |-> "jan", dot |-> TRUE] :> 1 @@
    [word |-> "févr", dot |-> FALSE] :> 2 @@ [word |-> "fév", dot |-> TRUE] :> 2 @@
    [word |-> "mars", dot |-> FALSE] :> 3 @@
    [word |-> "avr", dot |-> FALSE] :> 4 @@ [word |-> "avr", dot |-> TRUE] :> 4 @@
    [word |-> "mai", dot |-> FALSE] :> 5 @@ [word |-> "juin", dot |-> FALSE] :> 6 @@
    [word |-> "juil", dot |-> FALSE] :> 7 @@ [word |-> "juil", dot |-> TRUE] :> 7 @@
    [word |-> "août", dot |-> FALSE] :> 8 @@
    [word |-> "sept", dot |-> FALSE] :> 9 @@ [word |-> "sep", dot |-> TRUE] :> 9 @@
    [word |-> "oct", dot |-> FALSE] :> 10 @@ [word |-> "oct", dot |-> TRUE] :> 10 @@
    [word |-> "nov", dot |-> FALSE] :> 11 @@
    [word |-> "déc", dot |-> FALSE] :> 12 @@ [word |-> "déc", dot |-> TRUE] :> 12

\* scrape._extract_cards.fr_to_iso
fr_to_iso(d, word, dot, y) ==
    LET key == [word |-> word, dot |-> dot]
    IN  IF key \notin DOMAIN FR_MONTHS THEN None
        ELSE IsoFormat(y, FR_MONTHS[key], d)

DateDays == {1, 15, 28, 29, 30, 31}
DateYears == {2024, 2025}
DateWords == DOMAIN MONTHS_FR \cup {"lundi"}
DateArgs ==
    [conv : {"parse_date", "fr_to_iso_any", "fr_to_iso"},
     day : DateDays, word : DateWords, dot : BOOLEAN, year : DateYears]

InitDate ==
    /\ arg \in DateArgs
    /\ result = <<>>
    /\ fn = "none"
    /\ db = <<>>
    /\ CallsIdle
    /\ ProcIdle

ParseDate ==
    /\ arg.conv = "parse_date"
    /\ Call("parse_date", parse_date(arg.day, arg.word, arg.dot, arg.year))

FrToIsoAny ==
    /\ arg.conv = "fr_to_iso_any"
    /\ Call("fr_to_iso_any", fr_to_iso_any(arg.day, arg.word, arg.dot, arg.year))

FrToIso ==
    /\ arg.conv = "fr_to_iso"
    /\ Call("fr_to_iso", fr_to_iso(arg.day, arg.word, arg.dot, arg.year))

NextDate == ParseDate \/ FrToIsoAny \/ FrToIso

SpecDate == InitDate /\ [][NextDate]_vars

\* month number of a French month name or abbreviation, accented or not;
\* 0 for any other word
FrenchMonth(word) ==
    CASE word \in {"janvier", "janv"} -> 1
      [] word \in {"février", "fevrier", "févr", "fevr"} -> 2
      [] word = "mars" -> 3
      [] word \in {"avril", "avr"} -> 4
      [] word = "mai" -> 5
      [] word = "juin" -> 6
      [] word \in {"juillet", "juil"} -> 7
      [] word \in {"août", "aout"} -> 8
      [] word \in {"septembre", "sept"} -> 9
      [] word \in {"octobre", "oct"} -> 10
      [] word \in {"novembre", "nov"} -> 11
      [] word \in {"décembre", "decembre", "déc", "dec"} -> 12
      [] OTHER -> 0

Converted == fn \in {"parse_date", "fr_to_iso_any", "fr_to_iso"}

(* C20: each French-date converter returns YYYY-MM-DD for "<day> <token>
   <year>" exactly when the token is a French month name or abbreviation,
   with or without period, accented or not, and the date is a valid calendar
   date; otherwise (31 February, say) it returns none. *)
C20_DateConversion ==
    Converted =>
        result = IF /\ FrenchMonth(arg.word) # 0
                    /\ DatetimeOk(arg.year, FrenchMonth(arg.word), arg.day)
                 THEN IsoFormat(arg.year, FrenchMonth(arg.word), arg.day)
                 ELSE None


(***************************************************************************)
(* Ordered reads: db_import.fetch_all_tournaments (which export_db_to_json *)
(* writes), TournamentStore._export_json and the list_tournaments route.   *)
(* A table is the sequence of its rows' start_date values; a row's id is   *)
(* its position.  A result is the sequence of ids in the order returned.   *)
(***************************************************************************)
Jan10 == <<"2", "0", "2", "5", "-", "0", "1", "-", "1", "0">>
Feb01 == <<"2", "0", "2", "5", "-", "0", "2", "-", "0", "1">>

\* rows per table
MaxRows == 3

\* byte order of the characters of a date ('-' sorts before the digits)
CharRank(c) == IF c = "-" THEN 0 ELSE 1 + CHOOSE n \in 0..9 : DigitChar(n) = c

\* SQLite BINARY collation on text
RECURSIVE TextLess(_, _)
TextLess(a, b) ==
    IF b = <<>> THEN FALSE
    ELSE IF a = <<>> THEN TRUE
    ELSE IF Head(a) # Head(b) THEN CharRank(Head(a)) < CharRank(Head(b))
    ELSE TextLess(Tail(a), Tail(b))

\* ORDER BY x ASC on a TEXT column: NULL sorts before every text
SqlLess(a, b) ==
    IF a = None THEN b # None
    ELSE IF b = None THEN FALSE
    ELSE TextLess(a, b)

\* 0 / 1 value of a boolean sort key
Bit(b) == IF b THEN 1 ELSE 0

\* row i sorts strictly before row j under
\* "ORDER BY (start_date IS NULL OR start_date=''), start_date ASC, id DESC"
FetchAllBefore(t, i, j) ==
    LET ki == Bit(t[i] = None \/ t[i] = EmptyStr)
        kj == Bit(t[j] = None \/ t[j] = EmptyStr)
    IN  \/ ki < kj
        \/ ki = kj /\ SqlLess(t[i], t[j])
        \/ ki = kj /\ t[i] = t[j] /\ i > j

\* order_by(TournamentRecord.start_date.asc()): nothing orders equal dates
ExportJsonBefore(t, i, j) == SqlLess(t[i], t[j])

\* order_by(start_date.is_(None), asc(start_date), desc(id))
ListBefore(t, i, j) ==
    LET ki == Bit(t[i] = None)
        kj == Bit(t[j] = None)
    IN  \/ ki < kj
        \/ ki = kj /\ SqlLess(t[i], t[j])
        \/ ki = kj /\ t[i] = t[j] /\ i > j

Before(query, t, i, j) ==
    CASE query = "fetch_all_tournaments" -> FetchAllBefore(t, i, j)
      [] query = "_export_json" -> ExportJsonBefore(t, i, j)
      [] query = "list_tournaments" -> ListBefore(t, i, j)

RowOrders(n) ==
    {f \in [1..n -> 1..n] : \A i, j \in 1..n : i # j => f[i] # f[j]}

\* the orders a query may return the rows of t in: every order that agrees
\* with its ORDER BY clause (rows the clause leaves tied come in any order)
OrderedResults(query, t) ==
    {f \in RowOrders(Len(t)) :
        \A p, q \in 1..Len(t) : p < q => ~Before(query, t, f[q], f[p])}

\* start_date is TEXT (nullable) in db_import's table, String(10) NOT NULL in
\* TournamentRecord
StartDates(query) ==
    IF query = "fetch_all_tournaments" THEN {None, EmptyStr, Jan10, Feb01}
    ELSE {EmptyStr, Jan10, Feb01}

SortArgs ==
    UNION {[query : {qy}, rows : UNION {[1..n -> StartDates(qy)] : n \in 0..MaxRows}] :
              qy \in {"fetch_all_tournaments", "_export_json", "list_tournaments"}}

InitSort ==
    /\ arg \in SortArgs
    /\ result = <<>>
    /\ fn = "none"
    /\ db = <<>>
    /\ CallsIdle
    /\ ProcIdle

fetch_all_tournaments ==
    /\ arg.query = "fetch_all_tournaments"
    /\ \E f \in OrderedResults(arg.query, arg.rows) : Call(arg.query, f)

_export_json ==
    /\ arg.query = "_export_json"
    /\ \E f \in OrderedResults(arg.query, arg.rows) : Call(arg.query, f)

list_tournaments ==
    /\ arg.query = "list_tournaments"
    /\ \E f \in OrderedResults(arg.query, arg.rows) : Call(arg.query, f)

NextSort == fetch_all_tournaments \/ _export_json \/ list_tournaments

SpecSort == InitSort /\ [][NextSort]_vars

Queried == fn \in {"fetch_all_tournaments", "_export_json", "list_tournaments"}

UnknownDate(x) == x = None \/ x = EmptyStr

(* C19: the returned rows are ordered by start_date ascending, every row
   whose start_date is NULL or empty comes after every row with a start_date,
   and rows with equal start_date are ordered by id descending. *)
C19_ExportOrdering ==
    Queried =>
        \A p, q \in 1..Len(result) :
            p < q =>
                LET a == arg.rows[result[p]]
                    b == arg.rows[result[q]]
                IN  /\ ~(UnknownDate(a) /\ ~UnknownDate(b))
                    /\ (~UnknownDate(a) /\ ~UnknownDate(b)) => ~TextLess(b, a)
                    /\ a = b => result[p] > result[q]


(***************************************************************************)
(* Duplicates of one scrape pass or batch: import_items (no dedup step,    *)
(* the records of one detail_url are merged in turn), TenUpScraper.scrape  *)
(* and fetch_auto.scrape.  An item is a tournament as extracted: its url,  *)
(* start date and name; all items are equally complete.                    *)
(***************************************************************************)
\* items per pass
MaxPass == 3

\* the limit argument of TenUpScraper.scrape
ScrapeLimit == 50

DedupItems == [url : {Url123, UrlA42}, start_date : {Jan10, Feb01}, name : {Open, Cup}]

DedupArgs ==
    [impl : {"import_items", "TenUpScraper.scrape", "fetch_auto.scrape"},
     items : UNION {[1..n -> DedupItems] : n \in 1..MaxPass}]

\* positions of the dict keys in insertion order: the first item of each key
FirstOfKey(keys) == {i \in 1..Len(keys) : \A j \in 1..(i - 1) : keys[j] # keys[i]}

\* the increasing enumeration of a set of positions
RECURSIVE Ascending(_)
Ascending(S) ==
    IF S = {} THEN <<>>
    ELSE LET m == CHOOSE x \in S : \A y \in S : x <= y
         IN  <<m>> \o Ascending(S \ {m})

\* deduped[key] = item for every item, then deduped.values(): one value per
\* key in the order the keys were first inserted, each the last item of its key
DictLastWins(items, keys) ==
    LET firsts == Ascending(FirstOfKey(keys))
    IN  [k \in 1..Len(firsts) |->
            LET same == {i \in 1..Len(items) : keys[i] = keys[firsts[k]]}
            IN  items[CHOOSE i \in same : \A j \in same : j <= i]]

\* "if key in d: continue; d[key] = item", then d.values()
DictFirstWins(items, keys) ==
    LET firsts == Ascending(FirstOfKey(keys))
    IN  [k \in 1..Len(firsts) |-> items[firsts[k]]]

\* sorted(values, key=lambda item: item.start_date or ""): stable
RECURSIVE InsertByStartDate(_, _)
InsertByStartDate(sorted, item) ==
    IF sorted = <<>> THEN <<item>>
    ELSE IF TextLess(Or(item.start_date, EmptyStr), Or(Head(sorted).start_date, EmptyStr))
    THEN <<item>> \o sorted
    ELSE <<Head(sorted)>> \o InsertByStartDate(Tail(sorted), item)

RECURSIVE SortedByStartDate(_)
SortedByStartDate(items) ==
    IF items = <<>> THEN <<>>
    ELSE InsertByStartDate(SortedByStartDate(SubSeq(items, 1, Len(items) - 1)),
                           items[Len(items)])

\* TenUpScraper.scrape, lines 170-175, on the items of _scrape_with_page
TenUpDedup(items, seed) ==
    LET keys == [i \in 1..Len(items) |-> _extract_tournament_id(None, items[i].url, seed)]
        sorted_items == SortedByStartDate(DictLastWins(items, keys))
    IN  SubSeq(sorted_items, 1, IF Len(sorted_items) < ScrapeLimit
                                THEN Len(sorted_items) ELSE ScrapeLimit)

\* fetch_auto.compute_tournament_id (the first 12 of its 40 hex digits)
compute_tournament_id(url) == Sha1Hex12(url)

\* fetch_auto.scrape, lines 438-442
FetchAutoDedup(items) ==
    DictFirstWins(items, [i \in 1..Len(items) |-> compute_tournament_id(items[i].url)])

\* import_items on the items of a pass, empty table: the stored rows
ImportDedup(items) ==
    LET normalised == [i \in 1..Len(items) |-> _normalize(items[i])]
        valid == SelectSeq(normalised, LAMBDA it : _validate(it) = "ok")
        st == UpsertLoop([rows |-> <<>>, inserted |-> 0, updated |-> 0,
                          skipped |-> 0, raised |-> FALSE], valid, 1, 0)
    IN  [i \in 1..Len(st.rows) |->
            [url |-> st.rows[i].detail_url, start_date |-> st.rows[i].start_date,
             name |-> st.rows[i].name]]

InitDedup ==
    /\ arg \in DedupArgs
    /\ result = <<>>
    /\ fn = "none"
    /\ db = <<>>
    /\ CallsIdle
    /\ ProcIdle

ImportPass ==
    /\ arg.impl = "import_items"
    /\ Call(arg.impl, ImportDedup(arg.items))

TenUpPass ==
    /\ arg.impl = "TenUpScraper.scrape"
    /\ \E seed \in Seeds : Call(arg.impl, TenUpDedup(arg.items, seed))

FetchAutoPass ==
    /\ arg.impl = "fetch_auto.scrape"
    /\ Call(arg.impl, FetchAutoDedup(arg.items))

NextDedup == ImportPass \/ TenUpPass \/ FetchAutoPass

SpecDedup == InitDedup /\ [][NextDedup]_vars

Deduped == fn \in {"import_items", "TenUpScraper.scrape", "fetch_auto.scrape"}

\* the first-seen item of every url, in input order
FirstSeen(items) ==
    SelectSeq([i \in 1..Len(items) |->
                  IF \A j \in 1..(i - 1) : items[j].url # items[i].url
                  THEN items[i] ELSE [url |-> None]],
              LAMBDA it : it.url # None)

(* C11: of the equally complete records of one pass that resolve to the same
   identity the first-seen one is kept, unchanged by the later ones, and the
   surviving records are in input order. *)
C11_DedupKeepsFirstSeen ==
    Deduped => result = FirstSeen(arg.items)


(***************************************************************************)
(* Raw records whose fields hold any JSON scalar.  str.strip is called on  *)
(* three operands of _normalize whatever their type; on a number or a      *)
(* boolean it raises AttributeError, which nothing in import_items         *)
(* catches (the first loop runs before the try block).                     *)
(***************************************************************************)
\* the values .strip() is called on without an isinstance test
StripOperands(item) ==
    { Or(Or(get(item, "detail_url"), get(item, "url")), EmptyStr),
      Or(Or(get(item, "name"), get(item, "title")), Tournoi),
      Or(get(item, "tournament_id"), EmptyStr) }

\* _normalize(item) raises AttributeError
NormalizeRaises(item) == \E x \in StripOperands(item) : ~IsStr(x)

\* records per batch
MaxShapeBatch == 2

ShapeRecords ==
    [url : {UrlA42, UrlAx, Number7, JsonFalse},
     name : {Open, None, Number7, Number0},
     tournament_id : {None, T7, Number7, JsonTrue}]

ShapeArgs == UNION {[1..n -> ShapeRecords] : n \in 1..MaxShapeBatch}

\* import_items(items) on an empty table: what the call returns or raises,
\* and the table it leaves
ImportOutcome(items) ==
    IF \E i \in 1..Len(items) : NormalizeRaises(items[i])
    THEN [kind |-> "raise", error |-> "AttributeError", rows |-> <<>>]
    ELSE LET normalised == [i \in 1..Len(items) |-> _normalize(items[i])]
             valid == SelectSeq(normalised, LAMBDA it : _validate(it) = "ok")
             st == UpsertLoop([rows |-> <<>>, inserted |-> 0, updated |-> 0,
                               skipped |-> 0, raised |-> FALSE], valid, 1, 0)
         IN  [kind |-> "ImportStats", total |-> Len(items), valid |-> Len(valid),
              inserted |-> st.inserted, updated |-> st.updated,
              skipped |-> st.skipped, rows |-> st.rows]

InitShape ==
    /\ arg \in ShapeArgs
    /\ result = <<>>
    /\ fn = "none"
    /\ db = <<>>
    /\ CallsIdle
    /\ ProcIdle

ImportScalars == Call("import_items", ImportOutcome(arg))

NextShape == ImportScalars

SpecShape == InitShape /\ [][NextShape]_vars

\* every field of the record is a string or null
AllStr(item) == \A k \in DOMAIN item : item[k] = None \/ IsStr(item[k])

(* C15: whatever JSON scalar the fields name, title, url, detail_url and
   tournament_id of the raw records hold, import_items does not raise, counts
   every record, and still stores the records of the batch that are valid. *)
C15_ShapeNeverFatal ==
    (fn = "import_items" /\ arg \in ShapeArgs) =>
        /\ result.kind = "ImportStats"
        /\ result.total = Len(arg)
        /\ \A i \in 1..Len(arg) :
              (AllStr(arg[i]) /\ _validate(_normalize(arg[i])) = "ok") =>
                  \E r \in 1..Len(result.rows) : result.rows[r].detail_url = arg[i].url


(***************************************************************************)
(* Rejected records of a batch (main specification)                        *)
(***************************************************************************)
\* positions in the last batch of the rejected records
RejectedAt == (1..Len(batch)) \ AcceptedAt

(* C16: for a batch that mixes valid and rejected records, import_items
   stores no row for a rejected record, applies every valid record and
   returns a report; a call raises only out of the writes of its valid
   records, never because of a rejection. *)
C16_RejectionsNeverFatal ==
    calls > 0 =>
        /\ \A i \in RejectedAt : RowsOf(db, ResolvedUrl(batch[i])) = {}
        /\ \A r \in 1..Len(db) : startswith(db[r].detail_url, Http)
        /\ Returned =>
              /\ \A i \in AcceptedAt : Cardinality(RowsOf(db, ResolvedUrl(batch[i]))) = 1
              /\ ret.inserted + ret.updated + ret.skipped = Cardinality(AcceptedAt)
              /\ ret.total - ret.valid = Cardinality(RejectedAt)
        /\ AcceptedAt = {} => (Returned /\ db = pre)
        /\ ret.kind \in {"ImportStats", "raise"}

\* a mixed batch was imported: its valid record is stored, its rejected one
\* is counted and not stored
C16_Witness ==
    /\ Returned
    /\ AcceptedAt # {}
    /\ RejectedAt # {}
    /\ ret.inserted >= 1
    /\ \E i \in RejectedAt : ResolvedUrl(batch[i]) = UrlFtp


(***************************************************************************)
(* Overlapping calls.  Two import_items calls (the scheduler's thread and  *)
(* a request's thread, say) and a reader run on one database file.  db is  *)
(* the committed table.  Each call has its own connection: its SELECTs     *)
(* run outside a transaction until its first INSERT or UPDATE, which opens *)
(* the transaction and takes SQLite's write lock; from then on it works on *)
(* its private copy, published by con.commit().  A call that finds the     *)
(* lock taken waits for it or, after the busy timeout, raises.  Nothing in *)
(* the code holds a lock of its own around a call.                         *)
(***************************************************************************)
Procs == {1, 2}

\* the records the two calls import (all pass validation)
ConcRecords == {1, 3, 4}

\* records per call
MaxConcBatch == 2

ConcBatches == SeqsUpTo(ConcRecords, MaxConcBatch) \ {<<>>}

\* the tables the calls start on: empty, or holding the row of record 1
ConcTables == {<<>>, Transaction(<<>>, <<1>>, 0).rows}

\* fetchone() returned None
NoRow == [id |-> 0]

\* the call of p right after sqlite3.connect
ConnectedCall(ix) ==
    [pc |-> "select", ix |-> ix, k |-> 1, seen |-> NoRow, work |-> <<>>,
     inserted |-> 0, updated |-> 0, skipped |-> 0, rows_after |-> -1]

InitConc ==
    /\ db \in ConcTables
    /\ \E ix1, ix2 \in ConcBatches :
          proc = [lock |-> 0, pre |-> db, hist |-> {db}, read |-> db,
                  call |-> [p \in Procs |-> ConnectedCall(IF p = 1 THEN ix1 ELSE ix2)]]
    /\ PureIdle
    /\ CallsIdle

\* the item the call of p is at
ItemOf(c) == NormalisedRecord[c.ix[c.k]]

\* the table a statement of p reads: its own uncommitted copy once it holds
\* the write lock, the committed table otherwise
ViewOf(p) == IF proc.lock = p THEN proc.call[p].work ELSE db

\* the position of the call after the current item
Advance(c) ==
    [c EXCEPT !.k = @ + 1, !.seen = NoRow,
              !.pc = IF c.k + 1 > Len(c.ix) THEN "commit" ELSE "select"]

\* cur.execute("SELECT * FROM tournaments WHERE detail_url = ?"); fetchone()
SelectExisting(p) ==
    LET c == proc.call[p]
        e == Existing(ViewOf(p), ItemOf(c).detail_url)
    IN  /\ c.pc = "select"
        /\ proc' = [proc EXCEPT !.call[p] =
                       [c EXCEPT !.pc = "write",
                                 !.seen = IF e = 0 THEN NoRow ELSE ViewOf(p)[e]]]
        /\ UNCHANGED <<db, callvars, purevars>>

\* the else branch: nothing to update, no statement is issued
SkipItem(p) ==
    LET c == proc.call[p]
    IN  /\ c.pc = "write"
        /\ c.seen # NoRow
        /\ Updates(c.seen, Values(ItemOf(c))) = {}
        /\ proc' = [proc EXCEPT !.call[p] = Advance([c EXCEPT !.skipped = @ + 1])]
        /\ UNCHANGED <<db, callvars, purevars>>

\* the call of p issues a write statement
Writes(p) ==
    LET c == proc.call[p]
    IN  /\ c.pc = "write"
        /\ IF c.seen = NoRow THEN TRUE ELSE Updates(c.seen, Values(ItemOf(c))) # {}

\* the table the write statement of p works on: the statement opens the
\* transaction on the committed table unless p already holds the lock
WorkOf(p) == IF proc.lock = p THEN proc.call[p].work ELSE db

\* mutant: the table has no UNIQUE constraint on detail_url
InsertItem_NoUnique(p) ==
    LET c == proc.call[p]
        item == ItemOf(c)
    IN  /\ Writes(p)
        /\ c.seen = NoRow
        /\ proc.lock \in {0, p}
        /\ proc' = [proc EXCEPT
                       !.lock = p,
                       !.call[p] = Advance([c EXCEPT
                                       !.work = InsertRow(WorkOf(p), Values(item)),
                                       !.inserted = @ + 1])]
        /\ UNCHANGED <<db, callvars, purevars>>

\* INSERT INTO tournaments ...: the row did not exist when p looked
InsertItem(p) ==
    LET c == proc.call[p]
        item == ItemOf(c)
    IN  /\ Writes(p)
        /\ c.seen = NoRow
        /\ proc.lock \in {0, p}
        /\ Existing(WorkOf(p), item.detail_url) = 0
        /\ proc' = [proc EXCEPT
                       !.lock = p,
                       !.call[p] = Advance([c EXCEPT
                                       !.work = InsertRow(WorkOf(p), Values(item)),
                                       !.inserted = @ + 1])]
        /\ UNCHANGED <<db, callvars, purevars>>

\* INSERT of a detail_url the other call committed after p looked: the UNIQUE
\* constraint raises sqlite3.IntegrityError; except: con.rollback(); raise
InsertConflict(p) ==
    LET c == proc.call[p]
    IN  /\ Writes(p)
        /\ c.seen = NoRow
        /\ proc.lock \in {0, p}
        /\ Existing(WorkOf(p), ItemOf(c).detail_url) # 0
        /\ proc' = [proc EXCEPT !.lock = 0,
                                !.call[p] = [c EXCEPT !.pc = "raised", !.work = <<>>]]
        /\ UNCHANGED <<db, callvars, purevars>>

\* UPDATE tournaments SET ... WHERE detail_url = ? with the columns computed
\* from the row p read
UpdateItem(p) ==
    LET c == proc.call[p]
        item == ItemOf(c)
        values == Values(item)
    IN  /\ Writes(p)
        /\ c.seen # NoRow
        /\ proc.lock \in {0, p}
        /\ proc' = [proc EXCEPT
                       !.lock = p,
                       !.call[p] = Advance([c EXCEPT
                                       !.work = UpdateRows(WorkOf(p), item.detail_url,
                                                           values, Updates(c.seen, values)),
                                       !.updated = @ + 1])]
        /\ UNCHANGED <<db, callvars, purevars>>

\* the write finds the lock held until the busy timeout expires:
\* sqlite3.OperationalError (database is locked); except: rollback; raise
LockTimeout(p) ==
    LET c == proc.call[p]
    IN  /\ Writes(p)
        /\ proc.lock \notin {0, p}
        /\ proc' = [proc EXCEPT !.call[p] = [c EXCEPT !.pc = "raised", !.work = <<>>]]
        /\ UNCHANGED <<db, callvars, purevars>>

\* con.commit(): the private copy becomes the committed table
Commit(p) ==
    LET c == proc.call[p]
        after == IF proc.lock = p THEN c.work ELSE db
    IN  /\ c.pc = "commit"
        /\ db' = after
        /\ proc' = [proc EXCEPT !.lock = IF proc.lock = p THEN 0 ELSE @,
                                !.hist = @ \cup {after},
                                !.call[p] = [c EXCEPT !.pc = "count", !.work = <<>>]]
        /\ UNCHANGED <<callvars, purevars>>

\* rows_after = _count_rows() on a connection of its own, then return
CountRows(p) ==
    LET c == proc.call[p]
    IN  /\ c.pc = "count"
        /\ proc' = [proc EXCEPT !.call[p] =
                       [c EXCEPT !.pc = "returned", !.rows_after = _count_rows(db)]]
        /\ UNCHANGED <<db, callvars, purevars>>

\* mutant: the reader sees the uncommitted copy of the writing call
ReaderView_Dirty(pr, committed) ==
    IF pr.lock # 0 THEN pr.call[pr.lock].work ELSE committed

\* the table a connection other than the writer's reads
ReaderView(pr, committed) == committed

\* fetch_all_tournaments() on a connection of its own (the rows read; their
\* order is the subject of SpecSort)
ReadAll ==
    /\ proc.read # ReaderView(proc, db)
    /\ proc' = [proc EXCEPT !.read = ReaderView(proc, db)]
    /\ UNCHANGED <<db, callvars, purevars>>

NextConc ==
    \/ \E p \in Procs : SelectExisting(p)
    \/ \E p \in Procs : SkipItem(p)
    \/ \E p \in Procs : InsertItem(p)
    \/ \E p \in Procs : InsertConflict(p)
    \/ \E p \in Procs : UpdateItem(p)
    \/ \E p \in Procs : LockTimeout(p)
    \/ \E p \in Procs : Commit(p)
    \/ \E p \in Procs : CountRows(p)
    \/ ReadAll

SpecConc == InitConc /\ [][NextConc]_vars


\* both calls have returned or raised
Finished == \A p \in Procs : proc.call[p].pc \in {"returned", "raised"}

\* the counters of the report of p
ReportOf(p) ==
    [inserted |-> proc.call[p].inserted, updated |-> proc.call[p].updated,
     skipped |-> proc.call[p].skipped, rows_after |-> proc.call[p].rows_after]

\* import_items(Items(ix)) run alone on the table rows: the table it leaves
\* and the counters it reports
AloneOn(rows, ix) ==
    LET st == Transaction(rows, ix, 0)
    IN  [rows |-> st.rows,
         report |-> [inserted |-> st.inserted, updated |-> st.updated,
                     skipped |-> st.skipped, rows_after |-> _count_rows(st.rows)]]

\* the table and both reports are those of running first, then second
SerialOrder(first, second) ==
    LET r1 == AloneOn(proc.pre, proc.call[first].ix)
        r2 == AloneOn(r1.rows, proc.call[second].ix)
    IN  /\ proc.call[first].pc = "returned"
        /\ proc.call[second].pc = "returned"
        /\ db = r2.rows
        /\ ReportOf(first) = r1.report
        /\ ReportOf(second) = r2.report

\* the call of p raised and the table holds nothing of it
RejectedClean(p) ==
    LET q == CHOOSE o \in Procs : o # p
    IN  /\ proc.call[p].pc = "raised"
        /\ db = IF proc.call[q].pc = "returned"
                THEN AloneOn(proc.pre, proc.call[q].ix).rows
                ELSE proc.pre

(* C17: two overlapping import_items calls are serialised: either one of them
   is rejected with an error and writes nothing, or the final table and both
   reports (inserted, updated, skipped, rows_after) are those of one of the
   two serial executions. *)
C17_Serialised ==
    (proc # <<>> /\ Finished) =>
        \/ \E p \in Procs : RejectedClean(p)
        \/ SerialOrder(1, 2)
        \/ SerialOrder(2, 1)

\* the tables committed so far: the table before the calls and the table
\* after each commit
Committed == proc.hist

(* C18: a fetch_all_tournaments call that runs while import_items calls are
   in progress returns a table that holds, of each batch, either none or all
   of its inserts and updates: the table as it was before the calls or as one
   of the commits left it. *)
C18_NoHalfAppliedRead ==
    proc # <<>> => proc.read \in Committed

\* a reader ran while a call of two records held one uncommitted write, and
\* read the table without it
C18_Witness ==
    /\ proc # <<>>
    /\ \E p \in Procs :
          /\ proc.lock = p
          /\ Len(proc.call[p].ix) = 2
          /\ proc.call[p].k = 2
          /\ proc.call[p].work # db
          /\ proc.read = db
          /\ db # proc.pre


(***************************************************************************)
(* Upsert transition and frame (main specification)                        *)
(***************************************************************************)
\* the last batch holds exactly one accepted record, whose row existed when
\* the call started
OneFoundCandidate ==
    /\ Cardinality(AcceptedAt) = 1
    /\ \A i \in AcceptedAt : RowsOf(pre, ResolvedUrl(batch[i])) # {}

\* the candidate of such a batch, and the position of its row
TheCandidate == NormalisedRecord[batch[CHOOSE i \in AcceptedAt : TRUE]]
TheRow == CHOOSE r \in 1..Len(pre) : pre[r].detail_url = TheCandidate.detail_url

\* the columns in which the candidate holds a non-empty value that differs
\* from the stored one
Differing ==
    {c \in Columns :
        /\ get(TheCandidate, c) \notin {None, EmptyStr}
        /\ pre[TheRow][c] # get(TheCandidate, c)}

(* C21: a candidate whose row exists is counted as updated exactly when one
   of its non-empty fields differs from the stored value; then exactly the
   differing non-empty columns are written and every other column, the
   detail_url included, keeps its stored value; otherwise it is counted as
   skipped and the table is not written. *)
C21_UpsertTransition ==
    (Returned /\ OneFoundCandidate) =>
        /\ (ret.updated = 1) <=> (Differing # {})
        /\ (ret.skipped = 1) <=> (Differing = {})
        /\ ret.inserted = 0
        /\ Len(db) = Len(pre)
        /\ \A r \in 1..Len(db) : r # TheRow => db[r] = pre[r]
        /\ \A c \in Columns \cup {"id"} :
              db[TheRow][c] = IF c \in Differing THEN get(TheCandidate, c)
                              ELSE pre[TheRow][c]

\* an update that wrote one column and kept a stored value for which the
\* candidate had none
C21_Witness ==
    /\ Returned
    /\ OneFoundCandidate
    /\ ret.updated = 1
    /\ \E c \in Columns \ Differing :
          /\ get(TheCandidate, c) \in {None, EmptyStr}
          /\ pre[TheRow][c] \notin {None, EmptyStr}
          /\ db[TheRow][c] = pre[TheRow][c]


\* the row at position r of the table before the call is the row of no
\* accepted record of the last batch
Unrelated(r) ==
    \A i \in AcceptedAt : ResolvedUrl(batch[i]) # pre[r].detail_url

(* C22: a call leaves unrelated rows untouched: every row stored before the
   call whose detail_url is that of no valid candidate of the batch has all
   its columns unchanged after it, and the row count never decreases. *)
C22_Frame ==
    calls > 0 =>
        /\ Len(db) >= Len(pre)
        /\ \A r \in 1..Len(pre) : Unrelated(r) => db[r] = pre[r]

\* a call updated the row of its candidate next to an unrelated row
C22_Witness ==
    /\ Returned
    /\ ret.updated >= 1
    /\ \E r \in 1..Len(pre) : Unrelated(r) /\ db[r] = pre[r]


(***************************************************************************)
(* Uniqueness of detail_url under overlapping calls                        *)
(***************************************************************************)
\* the committed table and the uncommitted copy of the writing call
TablesInStore ==
    {db} \cup {proc.call[p].work : p \in {q \in Procs : proc.lock = q}}

\* every row has a non-empty detail_url and no two rows share one
UniqueDetailUrl(rows) ==
    /\ \A r \in 1..Len(rows) : rows[r].detail_url \notin {None, EmptyStr}
    /\ \A r1, r2 \in 1..Len(rows) :
          r1 # r2 => rows[r1].detail_url # rows[r2].detail_url

\* the call of p is about to INSERT a detail_url that its table already holds
DuplicateInsert(p) ==
    /\ proc.call[p].pc = "write"
    /\ proc.call[p].seen = NoRow
    /\ proc.lock \in {0, p}
    /\ Existing(WorkOf(p), ItemOf(proc.call[p]).detail_url) # 0

(* C23: in every state reachable by sequential or overlapping import_items
   calls every row has a non-empty detail_url and no two rows share one; an
   INSERT that would create a duplicate fails its batch (the call raises,
   holds no lock and the committed table is as before) and adds no row. *)
C23_UniquenessBackstop ==
    /\ [](proc # <<>> => \A t \in TablesInStore : UniqueDetailUrl(t))
    /\ [][\A p \in Procs :
             (proc # <<>> /\ DuplicateInsert(p) /\ proc'.call[p] # proc.call[p]) =>
                 /\ proc'.call[p].pc = "raised"
                 /\ proc'.lock # p
                 /\ db' = db]_vars

\* a call raised on the INSERT of a detail_url that the other call had
\* committed after the first had looked
C23_Witness ==
    /\ proc # <<>>
    /\ \E p \in Procs :
          /\ proc.call[p].pc = "raised"
          /\ proc.call[p].seen = NoRow
          /\ Existing(db, ItemOf(proc.call[p]).detail_url) # 0
          /\ Existing(proc.pre, ItemOf(proc.call[p]).detail_url) = 0
          /\ \E q \in Procs \ {p} : proc.call[q].pc = "returned" /\ proc.call[q].inserted >= 1


(***************************************************************************)
(* Normalised fields (main specification)                                  *)
(***************************************************************************)
(* C24: after _normalize, and so in every row inserted or updated by
   import_items, no optional string field (level, category, club_name, city,
   start_date, end_date, registration_url) holds the empty string: an empty
   or whitespace-only raw value is represented as absent. *)
C24_EmptyBecomesAbsent ==
    calls > 0 =>
        /\ \A i \in 1..Len(batch) : \A k \in StrippedKeys :
              get(NormalisedRecord[batch[i]], k) # EmptyStr
        /\ \A r \in 1..Len(db) : \A k \in StrippedKeys : db[r][k] # EmptyStr


(***************************************************************************)
(* _normalize and _validate of one raw record, over the aliases of the     *)
(* detail reference and of the title.                                      *)
(***************************************************************************)
OpenPadded == <<" ", "O", "p", "e", "n", " ">>

AliasRecords ==
    [detail_url : {None, EmptyStr, Blank, UrlA42Padded, UrlFtp},
     url : {None, Blank, UrlB42},
     name : {None, EmptyStr, Blank, OpenPadded},
     title : {None, Blank, Cup}]

InitNorm ==
    /\ arg \in AliasRecords
    /\ result = <<>>
    /\ fn = "none"
    /\ db = <<>>
    /\ CallsIdle
    /\ ProcIdle

\* normalised = _normalize(raw); failure = _validate(normalised)
NormalizeOne ==
    Call("_normalize", [data |-> _normalize(arg), failure |-> _validate(_normalize(arg))])

NextNorm == NormalizeOne

SpecNorm == InitNorm /\ [][NextNorm]_vars

NormalizedOne == fn = "_normalize"

(* C25: for every raw record, also one whose name and title are absent, empty
   or whitespace-only, the name produced by _normalize is a non-empty string,
   and it is the fixed placeholder when both aliases are empty. *)
C25_TitlePlaceholder ==
    NormalizedOne =>
        /\ result.data.name \notin {None, EmptyStr}
        /\ (IsBlank(arg.name) /\ IsBlank(arg.title)) => result.data.name = Tournoi

\* the trimmed value of the first of two aliases whose trimmed value is
\* non-empty, None when both are blank
FirstNonBlank(a, b) ==
    IF ~IsBlank(a) THEN strip(a) ELSE IF ~IsBlank(b) THEN strip(b) ELSE None

(* C26: the detail reference (aliases detail_url, then url) and the title
   (aliases name, then title) resolve to the trimmed value of the first alias
   whose trimmed value is non-empty; a record whose detail_url is
   whitespace-only and whose url is a valid http URL resolves to that url and
   passes validation. *)
C26_AliasResolution ==
    NormalizedOne =>
        /\ FirstNonBlank(arg.detail_url, arg.url) # None =>
              result.data.detail_url = FirstNonBlank(arg.detail_url, arg.url)
        /\ FirstNonBlank(arg.name, arg.title) # None =>
              result.data.name = FirstNonBlank(arg.name, arg.title)
        /\ (IsBlank(arg.detail_url) /\ arg.url = UrlB42) => result.failure = "ok"


(***************************************************************************)
(* Stored dates (main specification)                                       *)
(***************************************************************************)
\* a YYYY-MM-DD string
IsIsoDate(v) ==
    /\ Len(v) = 10
    /\ \A i \in {1, 2, 3, 4, 6, 7, 9, 10} : v[i] \in Digits
    /\ v[5] = "-" /\ v[8] = "-"

(* C27: in every stored row start_date and end_date are each absent or a
   YYYY-MM-DD string; a raw date that is not ISO leaves the field absent
   rather than being stored as raw text. *)
C27_DatesCanonical ==
    \A r \in 1..Len(db) : \A k \in {"start_date", "end_date"} :
        db[r][k] \in {None, EmptyStr} \/ IsIsoDate(db[r][k])


(***************************************************************************)
(* TournamentStore.upsert_many (SQLAlchemy store of Tournament models)     *)
(***************************************************************************)
\* Python values of the store, with their type
PyStr(s) == [type |-> "str", val |-> s]
PyUrl(s) == [type |-> "Url", val |-> s]
PyDatetime(n) == [type |-> "datetime", val |-> n]

\* a != b of Python: values of different types are never equal
PyNe(a, b) == IF a.type # b.type THEN TRUE ELSE a.val # b.val

\* entries per upsert_many call, and upsert_many calls
MaxStoreBatch == 2
MaxStoreCalls == 2

CreatedAtText == <<"2", "0", "2", "5", "-", "0", "1", "-", "0", "1", "T", "0", "8", ":", "0", "0">>
Id42 == <<"4", "2">>
Id43 == <<"4", "3">>

\* class Tournament(BaseModel): external_id, title, start_date, created_at
\* are str, registration_url is an HttpUrl
TournamentModels ==
    {[external_id |-> PyStr(e), title |-> PyStr(t), start_date |-> PyStr(Jan10),
      registration_url |-> PyUrl(UrlA42), created_at |-> PyStr(CreatedAtText)] :
        e \in {Id42, Id43}, t \in {Open, Cup}}

\* entry.model_dump(exclude={"source"}): the fields of the model, as typed there
PayloadFields == {"external_id", "title", "start_date", "registration_url", "created_at"}

\* the Python type a column's values have (db.String, db.DateTime)
ColumnType(field) == IF field \in {"created_at", "updated_at"} THEN "datetime" ELSE "str"

\* TournamentRecord.from_model(entry), then created_at = updated_at = now
from_model(model, now) ==
    [external_id |-> model.external_id, title |-> model.title,
     start_date |-> model.start_date,
     registration_url |-> PyStr(model.registration_url.val),
     created_at |-> PyDatetime(now), updated_at |-> PyDatetime(now)]

\* session.query(TournamentRecord).filter_by(**key).one_or_none(): positions
QueryByKey(rows, entry) ==
    {r \in 1..Len(rows) : /\ rows[r].external_id = entry.external_id
                          /\ rows[r].start_date = entry.start_date}

\* the fields with getattr(existing, field) != value
ChangedFields(existing, entry) ==
    {f \in PayloadFields : PyNe(existing[f], entry[f])}

\* the body of "for entry in records" for one entry, on the session's rows
UpsertOne(st, entry, now) ==
    LET found == QueryByKey(st.rows, entry) IN
    IF found = {}
    THEN [st EXCEPT !.rows = Append(@, from_model(entry, now)), !.inserted = @ + 1]
    ELSE LET r == CHOOSE x \in found : TRUE
             changed == ChangedFields(st.rows[r], entry)
         IN  IF changed # {}
             THEN [st EXCEPT
                     !.rows[r] = [f \in DOMAIN @ |->
                                     IF f \in changed THEN entry[f]
                                     ELSE IF f = "updated_at" THEN PyDatetime(now)
                                     ELSE @[f]],
                     !.updated = @ + 1]
             ELSE [st EXCEPT !.skipped = @ + 1]

RECURSIVE UpsertEntries(_, _, _)
UpsertEntries(st, entries, now) ==
    IF entries = <<>> THEN st
    ELSE UpsertEntries(UpsertOne(st, Head(entries), now), Tail(entries), now)

\* the session when upsert_many reaches session.commit()
AtCommit(table, entries, now) ==
    UpsertEntries([rows |-> table, inserted |-> 0, updated |-> 0, skipped |-> 0], entries, now)

\* the flush binds a value its column's type does not accept
BindFails(rows) ==
    \E r \in 1..Len(rows) : \E f \in DOMAIN rows[r] : rows[r][f].type # ColumnType(f)

StoreLists ==
    {<<>>} \cup {<<m>> : m \in TournamentModels}
           \cup {<<m1, m2>> : m1 \in TournamentModels, m2 \in TournamentModels}

InitStore ==
    /\ proc = [table |-> <<>>, pre |-> <<>>, entries |-> <<>>, prev |-> <<>>,
               outcome |-> "none", prevOutcome |-> "none",
               stats |-> [inserted |-> 0, updated |-> 0, skipped |-> 0], n |-> 0]
    /\ db = <<>>
    /\ PureIdle
    /\ CallsIdle

\* the start of an upsert_many(entries) call: now = datetime.utcnow()
StoreCall(entries, outcome, st) ==
    /\ proc.n < MaxStoreCalls
    /\ Len(entries) <= MaxStoreBatch
    /\ proc' = [table |-> IF outcome = "returned" THEN st.rows ELSE proc.table,
                pre |-> proc.table, entries |-> entries, prev |-> proc.entries,
                outcome |-> outcome, prevOutcome |-> proc.outcome,
                stats |-> [inserted |-> st.inserted, updated |-> st.updated,
                           skipped |-> st.skipped],
                n |-> proc.n + 1]
    /\ UNCHANGED <<db, callvars, purevars>>

\* upsert_many: session.commit() succeeds and the stats are returned
UpsertReturns ==
    \E entries \in StoreLists :
        LET st == AtCommit(proc.table, entries, proc.n + 1) IN
        /\ ~BindFails(st.rows)
        /\ StoreCall(entries, "returned", st)

\* upsert_many: session.commit() raises, the transaction is rolled back
UpsertRaises ==
    \E entries \in StoreLists :
        LET st == AtCommit(proc.table, entries, proc.n + 1) IN
        /\ BindFails(st.rows)
        /\ StoreCall(entries, "raised", st)

NextStore == UpsertReturns \/ UpsertRaises

SpecStore == InitStore /\ [][NextStore]_vars

\* the keys of the entries are distinct
DistinctKeys(entries) ==
    \A i, j \in 1..Len(entries) :
        i # j => entries[i].external_id # entries[j].external_id

\* the last call got the list that the returned call before it had got
SameListAgain ==
    /\ proc.n >= 2
    /\ proc.prevOutcome = "returned"
    /\ proc.entries = proc.prev
    /\ Len(proc.entries) >= 1
    /\ DistinctKeys(proc.entries)

(* C28: upserting the same list of N records a second time returns with
   updated = 0 and skipped = N and leaves every row, created_at and
   updated_at included, as it was. *)
C28_UnchangedIsSkipped ==
    SameListAgain =>
        /\ proc.outcome = "returned"
        /\ proc.stats.inserted = 0
        /\ proc.stats.updated = 0
        /\ proc.stats.skipped = Len(proc.entries)
        /\ proc.table = proc.pre


(***************************************************************************)
(* The pagination loops of the scrapers                                    *)
(***************************************************************************)
\* MAX_PAGES = 500  # garde-fou
MAX_PAGES == 500

\* if page_idx > 50: break
PaginatedGuard == 50

\* max_retries: int = 3
max_retries == 3

\* page_index of fetch_auto.scrape has no bound in the code: the model stops
\* counting at MaxPageIndex while the loop goes on
MaxPageIndex == 3

\* next-page actions that succeed when they do not always succeed; tournament
\* cards a listing parses to; the limit of _collect_list_items
MaxMore == 2
MaxCards == 1
MaxLimit == 2

Loops == {"manual_scrape", "fetch_paginated", "fetch_auto", "tenup"}

\* the site: the next-page action succeeds on every attempt (always), or on
\* the next "more" attempts only; every listing parses to "cards" tournaments;
\* err: looking up the load-more button raises PlaywrightError
InitPages ==
    /\ \E l \in Loops, a \in BOOLEAN, m \in 0..MaxMore, c \in 0..MaxCards,
          lim \in 1..MaxLimit, e \in BOOLEAN :
          proc = [loop |-> l, pc |-> IF l = "fetch_paginated" THEN "paginate" ELSE "collect",
                  page_index |-> 1, always |-> a, more |-> m,
                  cards |-> IF l = "tenup" THEN c ELSE 0,
                  limit |-> IF l = "tenup" THEN lim ELSE 0,
                  err |-> IF l = "tenup" THEN e ELSE FALSE,
                  items |-> 0, retries |-> 0]
    /\ db = <<>>
    /\ PureIdle
    /\ CallsIdle

\* go_next_page / try_click_next / go_to_next_page / load_more.is_visible()
NextPageOk == proc.always \/ proc.more > 0

\* the site after one more successful next-page action
Turned == IF proc.more > 0 THEN proc.more - 1 ELSE proc.more

At(l, pc) == proc.loop = l /\ proc.pc = pc

PageStep(p) ==
    /\ proc' = p
    /\ UNCHANGED <<db, callvars, purevars>>

\* manual_scrape: extract the page, then the MAX_PAGES guard
ManualCollect ==
    /\ At("manual_scrape", "collect")
    /\ PageStep([proc EXCEPT !.pc = IF proc.page_index >= MAX_PAGES THEN "done" ELSE "paginate"])

\* manual_scrape: if go_next_page(page): page_index += 1; continue / else: break
ManualPaginate ==
    /\ At("manual_scrape", "paginate")
    /\ PageStep(IF NextPageOk
                THEN [proc EXCEPT !.pc = "collect", !.page_index = @ + 1, !.more = Turned]
                ELSE [proc EXCEPT !.pc = "done"])

\* fetch_paginated.main: ok = try_click_next(page); if not ok: break; page_idx += 1
PaginatedClickNext ==
    /\ At("fetch_paginated", "paginate")
    /\ PageStep(IF NextPageOk
                THEN [proc EXCEPT !.pc = "collect", !.page_index = @ + 1, !.more = Turned]
                ELSE [proc EXCEPT !.pc = "done"])

\* fetch_paginated.main: extract the page, then if page_idx > 50: break
PaginatedCollect ==
    /\ At("fetch_paginated", "collect")
    /\ PageStep([proc EXCEPT !.pc = IF proc.page_index > PaginatedGuard THEN "done" ELSE "paginate"])

\* fetch_auto.scrape: collect_raw_tournaments(page) and the dict update
AutoCollect ==
    /\ At("fetch_auto", "collect")
    /\ PageStep([proc EXCEPT !.pc = "paginate"])

\* fetch_auto.scrape: if not go_to_next_page(page): break; page_index += 1
AutoPaginate ==
    /\ At("fetch_auto", "paginate")
    /\ PageStep(IF NextPageOk
                THEN [proc EXCEPT !.pc = "collect", !.more = Turned,
                                  !.page_index = IF @ < MaxPageIndex THEN @ + 1 ELSE @]
                ELSE [proc EXCEPT !.pc = "done"])

\* _collect_list_items: parse every card of the listing up to the limit
TenupCollect ==
    /\ At("tenup", "collect")
    /\ LET n == IF proc.items + proc.cards >= proc.limit THEN proc.limit
                ELSE proc.items + proc.cards
       IN  PageStep([proc EXCEPT !.items = n,
                                 !.pc = IF n >= proc.limit THEN "done" ELSE "paginate"])

\* _collect_list_items: the load-more button, else one more retry
TenupLoadMore ==
    /\ At("tenup", "paginate")
    /\ PageStep(IF proc.err THEN [proc EXCEPT !.pc = "done"]
                ELSE IF NextPageOk
                THEN [proc EXCEPT !.pc = "collect", !.more = Turned]
                ELSE [proc EXCEPT !.retries = @ + 1,
                                  !.pc = IF proc.retries + 1 >= max_retries
                                         THEN "done" ELSE "collect"])

NextPages ==
    \/ ManualCollect
    \/ ManualPaginate
    \/ PaginatedClickNext
    \/ PaginatedCollect
    \/ AutoCollect
    \/ AutoPaginate
    \/ TenupCollect
    \/ TenupLoadMore

SpecPages == InitPages /\ [][NextPages]_vars

\* a running scraper goes on executing its loop
SpecPagesFair == SpecPages /\ WF_vars(NextPages)

(* C29: every pagination loop reaches its exit, also on a site where the
   next-page action succeeds on every attempt. *)
C29_PaginationTerminates == <>(proc.pc = "done")


(***************************************************************************)
(* The registration throttle of the web application                        *)
(***************************************************************************)
\* REGISTRATION_CONF defaults
throttle_window_seconds == 60
throttle_max_submissions == 2

\* the last second of the clock
MaxNow == 62

Ips == {"ip1", "ip2"}

\* submission_tracker: Dict[str, List[float]] = {}, a dict in insertion order
InitThrottle ==
    /\ proc = [tracker |-> <<>>, pre |-> <<>>, now |-> 0, ip |-> "none", status |-> "none"]
    /\ db = <<>>
    /\ PureIdle
    /\ CallsIdle

\* [ts for ts in timestamps if now - ts <= window]
Recent(timestamps, now) ==
    SelectSeq(timestamps, LAMBDA ts : now - ts <= throttle_window_seconds)

\* prune_submission_tracker(now): the pruned tracker, or "raised" when the
\* loop variable ip is read without the loop having run
prune_submission_tracker(tracker, now) ==
    IF tracker = <<>> THEN [raised |-> TRUE, tracker |-> tracker]
    ELSE LET pruned == [i \in 1..Len(tracker) |->
                           [ip |-> tracker[i].ip,
                            history |-> Recent(tracker[i].history, now)]]
         IN  [raised |-> FALSE,
              tracker |-> IF pruned[Len(pruned)].history = <<>>
                          THEN SubSeq(pruned, 1, Len(pruned) - 1) ELSE pruned]

\* submission_tracker.setdefault(ip, [])
SetDefault(tracker, ip) ==
    IF \E i \in 1..Len(tracker) : tracker[i].ip = ip THEN tracker
    ELSE Append(tracker, [ip |-> ip, history |-> <<>>])

\* submission_tracker[ip]
HistoryOf(tracker, ip) ==
    IF \E i \in 1..Len(tracker) : tracker[i].ip = ip
    THEN tracker[CHOOSE i \in 1..Len(tracker) : tracker[i].ip = ip].history
    ELSE <<>>

\* _check_throttle(ip) at time now: the tracker it leaves and its answer
_check_throttle(tracker, ip, now) ==
    LET pruned == prune_submission_tracker(tracker, now) IN
    IF pruned.raised THEN [tracker |-> tracker, status |-> "500"]
    ELSE LET with == SetDefault(pruned.tracker, ip)
             k == CHOOSE i \in 1..Len(with) : with[i].ip = ip
         IN  IF Len(with[k].history) >= throttle_max_submissions
             THEN [tracker |-> with, status |-> "429"]
             ELSE [tracker |-> [with EXCEPT ![k].history = Append(@, now)],
                   status |-> "passed"]

\* POST /register from ip: a payload that fails _validate_payload is answered
\* 400 before the throttle, a valid one goes through _check_throttle
register ==
    \E ip \in Ips, valid \in BOOLEAN :
        LET out == IF valid THEN _check_throttle(proc.tracker, ip, proc.now)
                   ELSE [tracker |-> proc.tracker, status |-> "400"]
        IN  /\ proc' = [proc EXCEPT !.tracker = out.tracker, !.pre = proc.tracker,
                                    !.ip = ip, !.status = out.status]
            /\ UNCHANGED <<db, callvars, purevars>>

\* time.time() advances
Tick ==
    /\ proc.now < MaxNow
    /\ proc' = [proc EXCEPT !.now = @ + 1]
    /\ UNCHANGED <<db, callvars, purevars>>

NextThrottle == register \/ Tick

SpecThrottle == InitThrottle /\ [][NextThrottle]_vars

\* the last request was a valid /register request
ValidRequest == proc.status \in {"passed", "429", "500"}

(* C30: after any sequence of /register requests from an empty tracker, a
   valid request of an IP with fewer than throttle_max_submissions
   submissions recorded within the window passes the throttle and has its
   time recorded; one of an IP at the limit is answered 429 and nothing is
   recorded. *)
C30_Throttle ==
    ValidRequest =>
        IF Len(Recent(HistoryOf(proc.pre, proc.ip), proc.now)) < throttle_max_submissions
        THEN /\ proc.status = "passed"
             /\ HistoryOf(proc.tracker, proc.ip)
                   = Append(Recent(HistoryOf(proc.pre, proc.ip), proc.now), proc.now)
        ELSE /\ proc.status = "429"
             /\ HistoryOf(proc.tracker, proc.ip) = Recent(HistoryOf(proc.pre, proc.ip), proc.now)

============================================================================
